---- MODULE Spec2Model ----
(***************************************************************************)
(* Order lifecycle, quote bidding and notification fan-out of the         *)
(* AgroMath marketplace (src/app.py).  One action per request handler;    *)
(* a handler runs as one atomic step and its trailing notify_user calls   *)
(* are part of that step.                                                  *)
(***************************************************************************)
EXTENDS Integers, Sequences, FiniteSets, TLC

\* ---------------------------------------------------------------- bounds
MaxOrders == 2      \* order tokens make_order_id can return
MaxQuotes == 2      \* rows the quotes table can hold
MaxNotifs == 13     \* rows the notifications table can hold, one buyer shopping
MarketNotifs == 11   \* rows the notifications table can hold, two buyers shopping
RaceNotifs == 12     \* rows the notifications table can hold, requests side by side
ChatNotifs == 11     \* rows the notifications table can hold, tracking and chat
MaxMessages == 2     \* rows the order_messages table can hold
MaxPings == 1        \* rows location pings add to the order_locations table
PingNotifs == 11     \* rows the notifications table can hold, location pings
MaxLog == 27         \* rows the notifications table can hold, polling
MaxForeign == 1      \* rows of that table for users other than the first
FeedLog == 4         \* rows the notifications table can hold, polling side by side

\* accepted_quote_id INTEGER (nullable): 0 stands for SQL NULL
NULL == 0

\* worker threads serving requests side by side
MaxCalls == 2
Calls == 1..MaxCalls
\* a worker that is serving no request
Idle == [route |-> "idle"]

\* ----------------------------------------------------------- the people
Buyers       == {1, 2}
Farmers      == {3}
Transporters == {4, 5}
UserIds      == Buyers \cup Farmers \cup Transporters
ProductIds   == {1}
OrderIds     == 1..MaxOrders
QuoteIds     == 1..MaxQuotes
Prices       == {0, 900}
\* the "message" field of a chat post, before and after strip()
Messages     == {"", "hello"}
\* whether the checkout form carries the delivery point's coordinates
DestGpsInputs == {TRUE}
\* the lat and lng fields of a location ping: numbers of degrees on both sides
\* of each bound, NaN, and a value float() cannot parse
Degrees(ds) == {[kind |-> "number", deg |-> d] : d \in ds}
LatInputs == Degrees({-91, -90, 90, 91})
                \cup {[kind |-> "nan", deg |-> 0], [kind |-> "junk", deg |-> 0]}
LngInputs == Degrees({-181, -180, 180, 181})
\* the pings sent: one field runs over its inputs while the other is on a bound
PingInputs == (LatInputs \X Degrees({180})) \cup (Degrees({-90}) \X LngInputs)
\* the since parameter of a poll: cursors around both ends of the table and of
\* a page, a negative number, and a value int() cannot parse
SinceInputs == {[kind |-> "number", val |-> n] : n \in {-1, 0, 1, 26}}
                  \cup {[kind |-> "junk", val |-> 0]}
\* the users notified and polling: a buyer and a transporter
PollUsers == {1, 4}

OrderStatuses == {"NEEDS_QUOTES", "QUOTE_ACCEPTED", "IN_TRANSIT", "ARRIVED",
                  "DELIVERED", "CANCELLED"}
QuoteStatuses == {"SUBMITTED", "DECLINED", "ACCEPTED", "DELIVERED"}

VARIABLES
    users,          \* users table: id -> [role, is_active, farmer_status, has_hub_gps]
    products,       \* products table: id -> [farmer_user_id, is_active]
    cart,           \* session["cart"] of each user: set of product ids
    orders,         \* orders table: id -> [buyer_user_id, status, accepted_quote_id]
    order_items,    \* order_items table: order id -> set of product ids
    quotes,         \* quotes table, row i has id i
    notifications,  \* notifications table, row i has id i
    order_locations, \* order_locations table, row i has id i
    order_messages, \* order_messages table, row i has id i
    inflight,       \* requests between their SELECTs and their first UPDATE or INSERT
    reply,          \* the answer to the latest tracking, chat or polling request
    client          \* a polling browser: the cursor it sends next, the ids it was given

\* everything the database and the sessions hold
tables == <<users, products, cart, orders, order_items, quotes, notifications,
            order_locations, order_messages>>

vars == <<users, products, cart, orders, order_items, quotes, notifications,
          order_locations, order_messages, inflight, reply, client>>

\* ---------------------------------------------------------------- helpers
Min(S) == CHOOSE x \in S : \A y \in S : x <= y

RECURSIVE SortedSeq(_)
\* the elements of a finite set of integers in ascending order
SortedSeq(S) == IF S = {} THEN <<>> ELSE <<Min(S)>> \o SortedSeq(S \ {Min(S)})

\* role_required(*roles): the caller's current role must be one of roles
\* and a farmer must have been approved
role_required(u, roles) ==
    /\ users[u].role \in roles
    /\ users[u].role = "farmer" => users[u].farmer_status = "APPROVED"

\* variant: a row equal to an existing one is not inserted again
notify_user_once(ns, user_id, kind, oid) ==
    IF user_id = 0 \/ \E i \in DOMAIN ns :
                         ns[i] = [user_id |-> user_id, kind |-> kind, order_id |-> oid]
    THEN ns
    ELSE Append(ns, [user_id |-> user_id, kind |-> kind, order_id |-> oid])

\* notify_user: one row appended, nothing for a falsy user id
notify_user(ns, user_id, kind, oid) ==
    IF user_id = 0 THEN ns
    ELSE Append(ns, [user_id |-> user_id, kind |-> kind, order_id |-> oid])

RECURSIVE notify_each(_, _, _, _)
\* a loop of notify_user calls over a sequence of user ids
notify_each(ns, uids, kind, oid) ==
    IF uids = <<>> THEN ns
    ELSE notify_each(notify_user(ns, Head(uids), kind, oid), Tail(uids), kind, oid)

\* SELECT DISTINCT p.farmer_user_id FROM order_items oi JOIN products p ...
order_farmers(oid) == {products[p].farmer_user_id : p \in order_items[oid]}

\* variant: a user is notified once, buyer and farmer or not
milestone_audience_once(oid) ==
    SortedSeq({orders[oid].buyer_user_id} \cup order_farmers(oid))

\* the buyer row and the farmer rows every delivery milestone notifies
milestone_audience(oid) ==
    <<orders[oid].buyer_user_id>> \o SortedSeq(order_farmers(oid))

\* make_order_id: tokens are opaque, so they are handed out in a fixed order;
\* a token that is already a key of orders is the collision case
make_order_id(oid) == \A o \in OrderIds : o < oid => o \in DOMAIN orders

\* the tables as the schema creates them, the users registered, one product
\* listed, and the buyers in shoppers with product 1 in their cart (POST /cart/add)
Seeded(shoppers, log) ==
    /\ users = [u \in UserIds |->
                  [role |-> IF u \in Buyers THEN "buyer"
                            ELSE IF u \in Farmers THEN "farmer" ELSE "transporter",
                   is_active |-> 1,
                   farmer_status |-> IF u \in Farmers THEN "APPROVED" ELSE "NONE",
                   \* hub_lat and hub_lng are both set (a farmer's pickup point)
                   has_hub_gps |-> u \in Farmers]]
    /\ products = [p \in ProductIds |-> [farmer_user_id |-> 3, is_active |-> 1]]
    /\ cart = [u \in UserIds |-> IF u \in shoppers THEN {1} ELSE {}]
    /\ orders = << >>
    /\ order_items = << >>
    /\ quotes = << >>
    /\ notifications = log
    /\ order_locations = << >>
    /\ order_messages = << >>
    /\ inflight = [c \in Calls |-> Idle]
    /\ reply = [route |-> "none", text |-> "none"]
    /\ client = [since |-> 0, seen |-> << >>]

\* the same with no notification sent yet
Start(shoppers) == Seeded(shoppers, << >>)

\* a request the handler refuses (flash "error", redirect) before its first write
Refuse == UNCHANGED vars

\* ------------------------------------------------------------ buyer flows
\* the origin and dropoff rows order_place inserts: the farmer's hub when it
\* has coordinates, the buyer's delivery point when the form carried coordinates
place_locations(ls, oid, u, farmer_id, dest_gps) ==
    LET origin  == IF users[farmer_id].has_hub_gps
                   THEN <<[order_id |-> oid, user_id |-> farmer_id, role |-> "origin"]>>
                   ELSE << >>
        dropoff == IF dest_gps
                   THEN <<[order_id |-> oid, user_id |-> u, role |-> "dropoff"]>>
                   ELSE << >>
    IN  ls \o origin \o dropoff

\* variant: an empty cart is read as one holding the first product
get_cart_stocked(u) == IF cart[u] = {} THEN {1} ELSE cart[u]

\* get_cart: the product ids that are keys of the session's cart
get_cart(u) == cart[u]

\* variant: the cart's products that exist, on sale or not
by_id_listed(u) == get_cart(u) \cap DOMAIN products

\* the cart's products that exist and are active, as order_place selects them
by_id(u) == {p \in get_cart(u) \cap DOMAIN products : products[p].is_active = 1}

\* the farmers owning those products
farmer_ids_in_cart(u) == {products[p].farmer_user_id : p \in by_id(u)}

\* variant: the SELECT lacks "is_active=1"
all_transporters == {t \in DOMAIN users : users[t].role = "transporter"}

\* SELECT id FROM users WHERE role='transporter' AND is_active=1
active_transporters ==
    {t \in DOMAIN users : users[t].role = "transporter" /\ users[t].is_active = 1}

\* POST /order/place; oid is the token make_order_id returns, dest_gps tells
\* whether dest_lat and dest_lng of the form parse as numbers
order_place(u, oid, dest_gps) ==
    /\ role_required(u, {"buyer"})
    /\ IF get_cart(u) = {} THEN Refuse
       ELSE IF by_id(u) = {} \/ Cardinality(farmer_ids_in_cart(u)) # 1 THEN Refuse
       \* INSERT on an existing primary key raises; nothing was committed
       ELSE IF oid \in DOMAIN orders THEN Refuse
       ELSE /\ orders' = (oid :> [buyer_user_id |-> u, status |-> "NEEDS_QUOTES",
                                 accepted_quote_id |-> NULL]) @@ orders
            /\ order_locations' =
                  place_locations(order_locations, oid, u,
                                  Min(farmer_ids_in_cart(u)), dest_gps)
            /\ order_items' = (oid :> by_id(u)) @@ order_items
            /\ notifications' =
                  notify_each(
                      notify_each(notifications, SortedSeq(active_transporters),
                                  "NEW_ORDER", oid),
                      SortedSeq(farmer_ids_in_cart(u)), "NEW_ORDER", oid)
            /\ cart' = [cart EXCEPT ![u] = {}]
            /\ UNCHANGED <<users, products, quotes, order_messages, reply, client>>

\* variant: the second UPDATE is missing, the other quotes keep their status
accept_updates_no_decline(qs, oid, qid) ==
    [i \in DOMAIN qs |-> IF i = qid THEN [qs[i] EXCEPT !.status = "ACCEPTED"] ELSE qs[i]]

\* variant: the second UPDATE lacks "order_id = ?", it declines quotes of any order
accept_updates_all_orders(qs, oid, qid) ==
    [i \in DOMAIN qs |->
        IF i = qid THEN [qs[i] EXCEPT !.status = "ACCEPTED"]
        ELSE IF qs[i].status # "DELIVERED"
             THEN [qs[i] EXCEPT !.status = "DECLINED"]
             ELSE qs[i]]

\* variant: the first UPDATE carries "status <> 'DELIVERED'" too
accept_updates_keep_delivered(qs, oid, qid) ==
    [i \in DOMAIN qs |->
        IF qs[i].status = "DELIVERED" THEN qs[i]
        ELSE IF i = qid THEN [qs[i] EXCEPT !.status = "ACCEPTED"]
        ELSE IF qs[i].order_id = oid THEN [qs[i] EXCEPT !.status = "DECLINED"]
        ELSE qs[i]]

\* the quotes table after quote_accept's two UPDATE statements
accept_updates(qs, oid, qid) ==
    [i \in DOMAIN qs |->
        IF i = qid THEN [qs[i] EXCEPT !.status = "ACCEPTED"]
        ELSE IF qs[i].order_id = oid /\ qs[i].status # "DELIVERED"
             THEN [qs[i] EXCEPT !.status = "DECLINED"]
             ELSE qs[i]]

\* variant: the handler tests nothing on the quote row's status
accept_quote_any(q) == TRUE

\* the test quote_accept makes on the quote row it fetched
accept_quote_ok(q) == q.status \notin {"DECLINED"}

\* variant: the SELECT lacks "AND order_id = ?", a quote of any order is found
quote_of_any_order(qid, oid) == qid \in DOMAIN quotes

\* "SELECT * FROM quotes WHERE id=quote_id AND order_id=order_id" returns a row
quote_of_order(qid, oid) == qid \in DOMAIN quotes /\ quotes[qid].order_id = oid

\* the SELECTs of quote_accept return rows that pass its tests
accept_reads(u, oid, qid) ==
    /\ oid \in DOMAIN orders
    /\ orders[oid].buyer_user_id = u
    /\ quote_of_order(qid, oid)
    /\ accept_quote_ok(quotes[qid])

\* variant: the UPDATE of the order sets accepted_quote_id alone
accept_rows_keep_status(oid, qid) ==
    /\ quotes' = accept_updates(quotes, oid, qid)
    /\ orders' = [orders EXCEPT ![oid].accepted_quote_id = qid]

\* the three UPDATEs of quote_accept
accept_rows(oid, qid) ==
    /\ quotes' = accept_updates(quotes, oid, qid)
    /\ orders' = [orders EXCEPT ![oid].status = "QUOTE_ACCEPTED",
                                ![oid].accepted_quote_id = qid]

\* the three UPDATEs of quote_accept, their commit and the notifications after
\* it (transporter_user_id of a quote row is never updated, so the value read
\* before the UPDATEs is the value in the table)
accept_writes(oid, qid) ==
    LET declined == SortedSeq({i \in DOMAIN quotes : quotes[i].order_id = oid /\ i # qid})
        declined_uids == [k \in DOMAIN declined |-> quotes[declined[k]].transporter_user_id]
    IN  /\ accept_rows(oid, qid)
        /\ notifications' =
              notify_each(
                  notify_user(notifications, quotes[qid].transporter_user_id,
                              "QUOTE_ACCEPTED", oid),
                  declined_uids, "QUOTE_DECLINED", oid)
        /\ UNCHANGED <<users, products, cart, order_items, order_locations,
                 order_messages, reply, client>>

\* POST /quote/accept
quote_accept(u, oid, qid) ==
    /\ role_required(u, {"buyer"})
    /\ IF ~accept_reads(u, oid, qid) THEN Refuse
       ELSE accept_writes(oid, qid)

\* variant: the UPDATE lacks "id = ?", it declines every SUBMITTED quote of the order
decline_updates_whole_order(qs, oid, qid) ==
    [i \in DOMAIN qs |->
        IF qs[i].order_id = oid /\ qs[i].status = "SUBMITTED"
        THEN [qs[i] EXCEPT !.status = "DECLINED"]
        ELSE qs[i]]

\* the quotes table after quote_decline's UPDATE statement
decline_updates(qs, oid, qid) ==
    [i \in DOMAIN qs |->
        IF i = qid /\ qs[i].order_id = oid /\ qs[i].status = "SUBMITTED"
        THEN [qs[i] EXCEPT !.status = "DECLINED"]
        ELSE qs[i]]

\* POST /quote/decline
quote_decline(u, oid, qid) ==
    /\ role_required(u, {"buyer"})
    /\ IF ~(oid \in DOMAIN orders /\ orders[oid].buyer_user_id = u) THEN Refuse
       ELSE /\ quotes' = decline_updates(quotes, oid, qid)
            \* the row is re-read by id alone: any existing quote gets the notification
            /\ notifications' =
                  IF qid \in DOMAIN quotes
                  THEN notify_user(notifications, quotes[qid].transporter_user_id,
                                   "QUOTE_DECLINED", oid)
                  ELSE notifications
            /\ UNCHANGED <<users, products, cart, orders, order_items, order_locations,
                 order_messages, reply, client>>

\* ------------------------------------------------------ transporter flows
\* variant: the order's status is not looked at
open_for_quotes_any_status(oid) == oid \in DOMAIN orders

\* the order row transport_quote fetched exists and still takes quotes
open_for_quotes(oid) == oid \in DOMAIN orders /\ orders[oid].status = "NEEDS_QUOTES"

\* variant: the price is not looked at
price_rejected_never(price) == FALSE

\* "if price <= 0" of transport_quote
price_rejected(price) == price <= 0

\* the form's price and the order row transport_quote fetched pass its tests
quote_reads(oid, price) == ~price_rejected(price) /\ open_for_quotes(oid)

\* the INSERT of transport_quote
quote_rows(u, oid, price) ==
    quotes' = Append(quotes, [order_id |-> oid, transporter_user_id |-> u,
                              price |-> price, status |-> "SUBMITTED"])

\* the INSERT of transport_quote, its commit and the buyer's notification
quote_writes(u, oid, price) ==
    /\ quote_rows(u, oid, price)
    /\ notifications' =
          notify_user(notifications, orders[oid].buyer_user_id, "QUOTE", oid)
    /\ UNCHANGED <<users, products, cart, orders, order_items, order_locations,
                 order_messages, reply, client>>

\* POST /transport/quote
transport_quote(u, oid, price) ==
    /\ role_required(u, {"transporter"})
    /\ IF ~quote_reads(oid, price) THEN Refuse
       ELSE quote_writes(u, oid, price)

\* variant: the SELECT lacks "transporter_user_id = ?"
assigned_quote_any_transporter(oid, u) ==
    /\ orders[oid].accepted_quote_id \in DOMAIN quotes
    /\ quotes[orders[oid].accepted_quote_id].status = "ACCEPTED"

\* "SELECT * FROM quotes WHERE id=o.accepted_quote_id AND transporter_user_id=u"
\* returns a row and its status is ACCEPTED
assigned_quote_ok(oid, u) ==
    LET aq == orders[oid].accepted_quote_id
    IN  /\ aq \in DOMAIN quotes
        /\ quotes[aq].transporter_user_id = u
        /\ quotes[aq].status = "ACCEPTED"

\* the two SELECTs of a milestone handler return rows that pass its tests:
\* the order is in the handler's source status and the caller holds its
\* accepted quote
milestone_reads(u, oid, source) ==
    /\ oid \in DOMAIN orders
    /\ orders[oid].status = source
    /\ assigned_quote_ok(oid, u)

\* "UPDATE orders SET status=..." of transport_start_trip and transport_arrive
milestone_rows(oid, target) == orders' = [orders EXCEPT ![oid].status = target]

\* "UPDATE orders SET status=..." of transport_start_trip and transport_arrive,
\* its commit and the notifications after it
milestone_writes(oid, target) ==
    /\ milestone_rows(oid, target)
    /\ notifications' = notify_each(notifications, milestone_audience(oid), target, oid)
    /\ UNCHANGED <<users, products, cart, order_items, quotes, order_locations,
                 order_messages, reply, client>>

\* POST /transport/start
transport_start_trip(u, oid) ==
    /\ role_required(u, {"transporter"})
    /\ IF ~milestone_reads(u, oid, "QUOTE_ACCEPTED") THEN Refuse
       ELSE milestone_writes(oid, "IN_TRANSIT")

\* POST /transport/arrive
transport_arrive(u, oid) ==
    /\ role_required(u, {"transporter"})
    /\ IF ~milestone_reads(u, oid, "IN_TRANSIT") THEN Refuse
       ELSE milestone_writes(oid, "ARRIVED")

\* variant: the quote row is not updated
deliver_updates_none(qs, qid) == qs

\* the quotes table after transport_deliver's UPDATE of the quote row q["id"]
deliver_updates(qs, qid) == [qs EXCEPT ![qid].status = "DELIVERED"]

\* the two UPDATEs of transport_deliver
deliver_rows(oid, qid) ==
    /\ quotes' = deliver_updates(quotes, qid)
    /\ orders' = [orders EXCEPT ![oid].status = "DELIVERED"]

\* the two UPDATEs of transport_deliver, their commit and the notifications
\* after it; qid is q["id"] of the quote row the handler fetched
deliver_writes(oid, qid) ==
    /\ deliver_rows(oid, qid)
    /\ notifications' =
          notify_each(notifications, milestone_audience(oid), "DELIVERED", oid)
    /\ UNCHANGED <<users, products, cart, order_items, order_locations,
                 order_messages, reply, client>>

\* POST /transport/deliver
transport_deliver(u, oid) ==
    /\ role_required(u, {"transporter"})
    /\ IF ~milestone_reads(u, oid, "ARRIVED") THEN Refuse
       ELSE deliver_writes(oid, orders[oid].accepted_quote_id)

\* ------------------------------------------------------ tracking and chat
\* accepted_transporter_id: None (here NULL) unless the order exists, its
\* accepted_quote_id is set and names a quote row of this order
accepted_transporter_id(oid) ==
    IF oid \notin DOMAIN orders THEN NULL
    ELSE LET aqid == orders[oid].accepted_quote_id
         IN  IF aqid = NULL THEN NULL
             ELSE IF ~(aqid \in DOMAIN quotes /\ quotes[aqid].order_id = oid) THEN NULL
             ELSE quotes[aqid].transporter_user_id

\* variant: every transporter with a quote on the order is a participant
order_participant_ids_all_bidders(oid) ==
    IF oid \notin DOMAIN orders THEN {}
    ELSE {orders[oid].buyer_user_id} \cup order_farmers(oid)
         \cup {quotes[q].transporter_user_id :
                  q \in {i \in DOMAIN quotes : quotes[i].order_id = oid}}

\* order_participant_ids: buyer + farmers in order + accepted transporter (if any)
order_participant_ids(oid) ==
    IF oid \notin DOMAIN orders THEN {}
    ELSE {orders[oid].buyer_user_id} \cup order_farmers(oid)
         \cup (IF accepted_transporter_id(oid) # NULL
               THEN {accepted_transporter_id(oid)} ELSE {})

\* "if not allowed or int(u["id"]) not in allowed"
not_allowed(u, oid) ==
    order_participant_ids(oid) = {} \/ u \notin order_participant_ids(oid)

\* the request is answered with the given page, redirect or JSON error and
\* writes nothing
answers(route, text) ==
    /\ reply' = [route |-> route, text |-> text]
    /\ UNCHANGED <<tables, inflight, client>>

\* GET /track/<order_id>
track_order(u, oid) ==
    IF not_allowed(u, oid) THEN answers("track_order", "no_access")
    ELSE answers("track_order", "track.html")

\* GET /api/order/<order_id>/track
api_order_track(u, oid) ==
    IF not_allowed(u, oid) THEN answers("api_order_track", "forbidden")
    ELSE answers("api_order_track", "ok")

\* GET /chat/<order_id>
chat_order(u, oid) ==
    IF not_allowed(u, oid) THEN answers("chat_order", "no_access")
    ELSE IF accepted_transporter_id(oid) = NULL THEN answers("chat_order", "chat_after_accept")
    ELSE answers("chat_order", "chat.html")

\* GET /api/order/<order_id>/messages
api_order_messages(u, oid) ==
    IF not_allowed(u, oid) THEN answers("api_order_messages", "forbidden")
    ELSE answers("api_order_messages", "ok")

\* variant: a message is taken before the order has an accepted transporter
chat_not_active_never(oid) == FALSE

\* "if not accepted_transporter_id(order_id)"
chat_not_active(oid) == accepted_transporter_id(oid) = NULL

\* POST /api/order/<order_id>/messages; msg is the message field after strip()
api_order_send_message(u, oid, msg) ==
    IF not_allowed(u, oid) THEN answers("api_order_send_message", "forbidden")
    ELSE IF chat_not_active(oid) THEN answers("api_order_send_message", "chat_not_active")
    ELSE IF msg = "" THEN answers("api_order_send_message", "empty")
    ELSE /\ order_messages' =
               Append(order_messages,
                      [order_id |-> oid, sender_user_id |-> u, message |-> msg])
         /\ notifications' =
               notify_each(notifications,
                           SortedSeq(order_participant_ids(oid) \ {u}), "CHAT", oid)
         /\ reply' = [route |-> "api_order_send_message", text |-> "ok"]
         /\ UNCHANGED <<users, products, cart, orders, order_items, quotes,
                         order_locations, inflight, client>>

\* float(j.get("lat")): a JSON value that is no number raises (bad_payload);
\* a number parses to itself, and so does NaN
parses(x) == x.kind # "junk"

\* variant: the bounds themselves are refused
within_open(x, lo, hi) == x.kind = "number" /\ lo < x.deg /\ x.deg < hi

\* lo <= x <= hi on floats: every comparison with NaN is false
within(x, lo, hi) == x.kind = "number" /\ lo <= x.deg /\ x.deg <= hi

\* variant: any logged-in transporter may ping
ping_refused_never(u, oid) == FALSE

\* "if not atid or int(u["id"]) != int(atid)"
ping_refused(u, oid) ==
    accepted_transporter_id(oid) = NULL \/ u # accepted_transporter_id(oid)

\* POST /api/order/<order_id>/location; lat and lng are the JSON fields
api_order_location(u, oid, lat, lng) ==
    /\ role_required(u, {"transporter"})
    /\ IF ping_refused(u, oid)
       THEN answers("api_order_location", "not_accepted_transporter")
       ELSE IF ~(parses(lat) /\ parses(lng))
       THEN answers("api_order_location", "bad_payload")
       ELSE IF ~(within(lat, -90, 90) /\ within(lng, -180, 180))
       THEN answers("api_order_location", "bad_coords")
       ELSE /\ order_locations' =
                  Append(order_locations,
                         [order_id |-> oid, user_id |-> u, role |-> "transporter",
                          lat |-> lat.deg, lng |-> lng.deg])
            /\ reply' = [route |-> "api_order_location", text |-> "ok"]
            /\ UNCHANGED <<users, products, cart, orders, order_items, quotes,
                            notifications, order_messages, inflight, client>>

\* ------------------------------------------------------------ notifications
\* LIMIT 25 of the polling SELECT
PageSize == 25

\* int(since_raw): a value int() cannot parse gives since = 0
to_int(x) == IF x.kind = "number" THEN x.val ELSE 0

\* a row another request has inserted and not yet committed cannot be read
committed(i) ==
    \A c \in Calls : ~(inflight[c].route = "notify" /\ inflight[c].id = i)

\* variant: the WHERE clause lacks "user_id = ?"
of_user_any(row, u) == TRUE

\* WHERE user_id = ?
of_user(row, u) == row.user_id = u

\* variant: the WHERE clause reads "id >= ?"
newer_or_same(i, since) == i >= since

\* WHERE ... AND id > ?
newer(i, since) == i > since

\* LIMIT n
limit(s, n) == SubSeq(s, 1, Min({n, Len(s)}))

\* SELECT id ... FROM notifications WHERE user_id = ? AND id > ?
\* ORDER BY id ASC LIMIT 25: the ids of the rows returned
select_notifications(u, since) ==
    LET matches(i) == /\ committed(i)
                      /\ of_user(notifications[i], u)
                      /\ newer(i, since)
    IN  limit(SelectSeq([i \in 1..Len(notifications) |-> i], matches), PageSize)

\* GET /api/notifications?since=<since_raw>
api_notifications(u, since_raw) ==
    LET since == to_int(since_raw)
        items == select_notifications(u, since)
    IN  /\ reply' = [route |-> "api_notifications", text |-> "ok",
                     latest_id |-> IF items = << >> THEN since ELSE items[Len(items)],
                     items |-> items]
        /\ UNCHANGED <<tables, inflight>>

\* ---------------------------------------------------------- specification
\* the quotes, notifications and order_messages tables stay within the bounds
\* of the model
Bounded(maxNotifs) ==
    /\ Len(quotes') <= MaxQuotes
    /\ Len(notifications') <= maxNotifs
    /\ Len(order_messages') <= MaxMessages

\* the request is served from its first SELECT to its last commit with no
\* other request in between
Alone == UNCHANGED inflight

\* a request took effect: it wrote at least one row (a refused request writes none)
Written == vars' # vars

\* one request per route that took effect, for any logged-in user and any form
\* input; a refused request leaves every table as it is, a step [Next]_vars
\* allows in every state
OrderPlace(maxNotifs) ==
    \E u \in UserIds, oid \in OrderIds, dest_gps \in DestGpsInputs :
        make_order_id(oid) /\ order_place(u, oid, dest_gps) /\ Alone /\ Written /\ Bounded(maxNotifs)
QuoteAccept(maxNotifs) ==
    \E u \in UserIds, oid \in OrderIds, qid \in QuoteIds :
        quote_accept(u, oid, qid) /\ Alone /\ Written /\ Bounded(maxNotifs)
QuoteDecline(maxNotifs) ==
    \E u \in UserIds, oid \in OrderIds, qid \in QuoteIds :
        quote_decline(u, oid, qid) /\ Alone /\ Written /\ Bounded(maxNotifs)
TransportQuote(maxNotifs) ==
    \E u \in UserIds, oid \in OrderIds, price \in Prices :
        transport_quote(u, oid, price) /\ Alone /\ Written /\ Bounded(maxNotifs)
TransportStart(maxNotifs) ==
    \E u \in UserIds, oid \in OrderIds :
        transport_start_trip(u, oid) /\ Alone /\ Written /\ Bounded(maxNotifs)
TransportArrive(maxNotifs) ==
    \E u \in UserIds, oid \in OrderIds :
        transport_arrive(u, oid) /\ Alone /\ Written /\ Bounded(maxNotifs)
TransportDeliver(maxNotifs) ==
    \E u \in UserIds, oid \in OrderIds :
        transport_deliver(u, oid) /\ Alone /\ Written /\ Bounded(maxNotifs)

\* one buyer shopping: a single order, followed through its whole life
Init == Start({1})
Next ==
    \/ OrderPlace(MaxNotifs)
    \/ QuoteAccept(MaxNotifs)
    \/ QuoteDecline(MaxNotifs)
    \/ TransportQuote(MaxNotifs)
    \/ TransportStart(MaxNotifs)
    \/ TransportArrive(MaxNotifs)
    \/ TransportDeliver(MaxNotifs)
Spec == Init /\ [][Next]_vars

\* two buyers shopping: two orders side by side
InitMarket == Start(Buyers)
NextMarket ==
    \/ OrderPlace(MarketNotifs)
    \/ QuoteAccept(MarketNotifs)
    \/ QuoteDecline(MarketNotifs)
    \/ TransportQuote(MarketNotifs)
    \/ TransportStart(MarketNotifs)
    \/ TransportArrive(MarketNotifs)
    \/ TransportDeliver(MarketNotifs)
SpecMarket == InitMarket /\ [][NextMarket]_vars

\* ---------------------------------------------- tracking and chat requests
TrackPage ==
    \E u \in UserIds, oid \in OrderIds : track_order(u, oid)
TrackApi ==
    \E u \in UserIds, oid \in OrderIds : api_order_track(u, oid)
ChatPage ==
    \E u \in UserIds, oid \in OrderIds : chat_order(u, oid)
ReadMessages ==
    \E u \in UserIds, oid \in OrderIds : api_order_messages(u, oid)
SendMessage ==
    \E u \in UserIds, oid \in OrderIds, msg \in Messages :
        api_order_send_message(u, oid, msg) /\ Bounded(ChatNotifs)

\* one buyer's order, with tracking and chat requests on it
InitChat == Start({1})
NextChat ==
    \/ OrderPlace(ChatNotifs)
    \/ TransportQuote(ChatNotifs)
    \/ QuoteAccept(ChatNotifs)
    \/ TransportStart(ChatNotifs)
    \/ TransportArrive(ChatNotifs)
    \/ TransportDeliver(ChatNotifs)
    \/ TrackPage
    \/ TrackApi
    \/ ChatPage
    \/ ReadMessages
    \/ SendMessage
SpecChat == InitChat /\ [][NextChat]_vars

\* ------------------------------------------------------- location pings
\* the order_locations rows written by location pings
Pings(ls) == {i \in DOMAIN ls : ls[i].role = "transporter"}

LocationPing ==
    \E u \in UserIds, oid \in OrderIds, ping \in PingInputs :
        /\ api_order_location(u, oid, ping[1], ping[2])
        /\ Cardinality(Pings(order_locations')) <= MaxPings

\* one buyer's order, with location pings on it
InitPing == Start({1})
NextPing ==
    \/ OrderPlace(PingNotifs)
    \/ TransportQuote(PingNotifs)
    \/ QuoteAccept(PingNotifs)
    \/ TransportStart(PingNotifs)
    \/ TransportArrive(PingNotifs)
    \/ TransportDeliver(PingNotifs)
    \/ LocationPing
SpecPing == InitPing /\ [][NextPing]_vars

\* -------------------------------------------------------------- polling
RECURSIVE UpTo(_, _)
\* the subsets of S of at most k elements
UpTo(S, k) ==
    IF k = 0 THEN {{}}
    ELSE UpTo(S, k - 1) \cup {G \cup {x} : G \in UpTo(S, k - 1), x \in S}

RECURSIVE filled(_, _)
\* the table after n notify_user calls, those numbered in F for user 4 and
\* the others for user 1
filled(n, F) ==
    IF n = 0 THEN << >>
    ELSE notify_user(filled(n - 1, F), IF n \in F THEN 4 ELSE 1, "NEW_ORDER", 1)

\* the rows of a notifications table that are not for user u
Foreign(ns, u) == {i \in DOMAIN ns : ns[i].user_id # u}

\* the notifications tables polled
PollLogs == {filled(n, F) : n \in 0..MaxLog, F \in UpTo(1..MaxLog, MaxForeign)}

\* a poll of any user with any cursor
Poll ==
    \E u \in PollUsers, since_raw \in SinceInputs :
        api_notifications(u, since_raw) /\ UNCHANGED client

\* polls of a notifications table that earlier requests have filled
InitPoll == \E log \in PollLogs : Seeded({}, log)
NextPoll == Poll
SpecPoll == InitPoll /\ [][NextPoll]_vars

\* ------------------------------------------------- requests side by side
\* Each request has its own database connection (get_db) and no SELECT takes
\* a lock, so between the SELECTs of one request and its first UPDATE or
\* INSERT other requests can run.  A request is served in two steps: its
\* reads, which leave what they fetched in a worker, and its writes.

\* the worker a new request is given: the first idle one
free_worker(c) ==
    /\ inflight[c] = Idle
    /\ \A d \in Calls : d < c => inflight[d] # Idle

\* worker c keeps the request whose reads passed
holds(c, route, u, oid, qid, price) ==
    /\ inflight' = [inflight EXCEPT ![c] =
                       [route |-> route, user_id |-> u, order_id |-> oid,
                        quote_id |-> qid, price |-> price]]
    /\ UNCHANGED <<tables, reply, client>>

\* worker c has answered its request
done(c) == inflight' = [inflight EXCEPT ![c] = Idle]

AcceptReads ==
    \E c \in Calls, u \in UserIds, oid \in OrderIds, qid \in QuoteIds :
        /\ free_worker(c)
        /\ role_required(u, {"buyer"})
        /\ IF ~accept_reads(u, oid, qid) THEN Refuse
           ELSE holds(c, "accept", u, oid, qid, 0)
AcceptWrites ==
    \E c \in Calls :
        /\ inflight[c].route = "accept"
        /\ accept_writes(inflight[c].order_id, inflight[c].quote_id)
        /\ done(c)
        /\ Bounded(RaceNotifs)
QuoteReads ==
    \E c \in Calls, u \in UserIds, oid \in OrderIds, price \in Prices :
        /\ free_worker(c)
        /\ role_required(u, {"transporter"})
        /\ IF ~quote_reads(oid, price) THEN Refuse
           ELSE holds(c, "quote", u, oid, NULL, price)
QuoteWrites ==
    \E c \in Calls :
        /\ inflight[c].route = "quote"
        /\ quote_writes(inflight[c].user_id, inflight[c].order_id, inflight[c].price)
        /\ done(c)
        /\ Bounded(RaceNotifs)
StartReads ==
    \E c \in Calls, u \in UserIds, oid \in OrderIds :
        /\ free_worker(c)
        /\ role_required(u, {"transporter"})
        /\ IF ~milestone_reads(u, oid, "QUOTE_ACCEPTED") THEN Refuse
           ELSE holds(c, "start", u, oid, orders[oid].accepted_quote_id, 0)
StartWrites ==
    \E c \in Calls :
        /\ inflight[c].route = "start"
        /\ milestone_writes(inflight[c].order_id, "IN_TRANSIT")
        /\ done(c)
        /\ Bounded(RaceNotifs)
ArriveReads ==
    \E c \in Calls, u \in UserIds, oid \in OrderIds :
        /\ free_worker(c)
        /\ role_required(u, {"transporter"})
        /\ IF ~milestone_reads(u, oid, "IN_TRANSIT") THEN Refuse
           ELSE holds(c, "arrive", u, oid, orders[oid].accepted_quote_id, 0)
ArriveWrites ==
    \E c \in Calls :
        /\ inflight[c].route = "arrive"
        /\ milestone_writes(inflight[c].order_id, "ARRIVED")
        /\ done(c)
        /\ Bounded(RaceNotifs)
DeliverReads ==
    \E c \in Calls, u \in UserIds, oid \in OrderIds :
        /\ free_worker(c)
        /\ role_required(u, {"transporter"})
        /\ IF ~milestone_reads(u, oid, "ARRIVED") THEN Refuse
           ELSE holds(c, "deliver", u, oid, orders[oid].accepted_quote_id, 0)
DeliverWrites ==
    \E c \in Calls :
        /\ inflight[c].route = "deliver"
        /\ deliver_writes(inflight[c].order_id, inflight[c].quote_id)
        /\ done(c)
        /\ Bounded(RaceNotifs)

\* one buyer's order, with the requests on it served side by side
InitRace == Start({1})
NextRace ==
    \/ OrderPlace(RaceNotifs)
    \/ AcceptReads
    \/ AcceptWrites
    \/ QuoteReads
    \/ QuoteWrites
    \/ StartReads
    \/ StartWrites
    \/ ArriveReads
    \/ ArriveWrites
    \/ DeliverReads
    \/ DeliverWrites
SpecRace == InitRace /\ [][NextRace]_vars

\* ---------------------------------------------------- polling browser
\* the browser of user 1 polls with the latest_id of its previous poll and
\* keeps what it is given
ClientPoll ==
    /\ api_notifications(1, [kind |-> "number", val |-> client.since])
    /\ client' = [since |-> reply'.latest_id, seen |-> client.seen \o reply'.items]

\* a notify_user call of some request: INSERT and commit with nothing in between
NotifyUser ==
    \E uid \in PollUsers :
        /\ notifications' = notify_user(notifications, uid, "NEW_ORDER", 1)
        /\ Len(notifications') <= MaxLog
        /\ Cardinality(Foreign(notifications', 1)) <= MaxForeign
        /\ UNCHANGED <<users, products, cart, orders, order_items, quotes,
                        order_locations, order_messages, inflight, reply, client>>

\* a browser polling while other requests notify its user
InitFeed == Start({})
NextFeed == NotifyUser \/ ClientPoll
SpecFeed == InitFeed /\ [][NextFeed]_vars

\* notify_user is an INSERT, which takes the next id of the table's sequence,
\* and a commit, which makes the row readable by other connections; requests
\* served side by side can commit in another order than they inserted
NotifyInsert ==
    \E c \in Calls, uid \in PollUsers :
        /\ free_worker(c)
        /\ notifications' = notify_user(notifications, uid, "NEW_ORDER", 1)
        /\ Len(notifications') <= FeedLog
        /\ inflight' = [inflight EXCEPT ![c] =
                           [route |-> "notify", id |-> Len(notifications')]]
        /\ UNCHANGED <<users, products, cart, orders, order_items, quotes,
                        order_locations, order_messages, reply, client>>
NotifyCommit ==
    \E c \in Calls :
        /\ inflight[c].route = "notify"
        /\ done(c)
        /\ UNCHANGED <<tables, reply, client>>

\* a browser polling while requests served side by side notify its user
InitFeedRace == Start({})
NextFeedRace == NotifyInsert \/ NotifyCommit \/ ClientPoll
SpecFeedRace == InitFeedRace /\ [][NextFeedRace]_vars

\* ------------------------------------------------------- cart and checkout
\* session["cart"] holds product ids; the quantities it maps them to decide no
\* row count and are left out.  The rows are those of psycopg2's RealDictCursor.

\* the farmers owning the products already in the cart, active or not
existing_farmers(u) ==
    {products[p].farmer_user_id : p \in get_cart(u) \cap DOMAIN products}

\* variant: any product may join the cart
other_farmer_never(u, pid) == FALSE

\* the cart holds products and none of them is by the farmer of product pid
other_farmer(u, pid) ==
    /\ get_cart(u) # {}
    /\ existing_farmers(u) # {}
    /\ products[pid].farmer_user_id \notin existing_farmers(u)

\* POST /cart/add
cart_add(u, pid) ==
    /\ role_required(u, {"buyer"})
    /\ IF ~(pid \in DOMAIN products /\ products[pid].is_active = 1) THEN Refuse
       ELSE IF other_farmer(u, pid) THEN Refuse
       ELSE /\ cart' = [cart EXCEPT ![u] = get_cart(u) \cup {pid}]
            /\ UNCHANGED <<users, products, orders, order_items, quotes, notifications,
                           order_locations, order_messages, reply, client>>

\* POST /cart/remove
cart_remove(u, pid) ==
    /\ role_required(u, {"buyer"})
    /\ cart' = [cart EXCEPT ![u] = get_cart(u) \ {pid}]
    /\ UNCHANGED <<users, products, orders, order_items, quotes, notifications,
                   order_locations, order_messages, reply, client>>

\* POST /farmer/product/toggle
farmer_product_toggle(u, pid) ==
    /\ role_required(u, {"farmer"})
    /\ IF ~(pid \in DOMAIN products /\ products[pid].farmer_user_id = u) THEN Refuse
       ELSE /\ products' = [products EXCEPT ![pid].is_active = 1 - @]
            /\ UNCHANGED <<users, cart, orders, order_items, quotes, notifications,
                           order_locations, order_messages, reply, client>>

\* the user whose phone is ADMIN_PHONE
Admins == {2}
is_admin(u) == u \in Admins

\* POST /profile; hub_gps tells whether the form carried hub_lat and hub_lng
profile_post(u, role, hub_gps) ==
    IF role \notin {"buyer", "farmer", "transporter"} THEN Refuse
    ELSE LET farmer_status ==
                 IF role = "farmer"
                 THEN IF is_admin(u) THEN "APPROVED"
                      ELSE IF users[u].farmer_status \in {"NONE", "DECLINED"}
                      THEN "PENDING" ELSE users[u].farmer_status
                 ELSE "NONE"
         IN  /\ users' = [users EXCEPT ![u] =
                            [@ EXCEPT !.role = role, !.farmer_status = farmer_status,
                                      !.has_hub_gps = hub_gps]]
             /\ UNCHANGED <<products, cart, orders, order_items, quotes, notifications,
                            order_locations, order_messages, reply, client>>

\* the products on sale: 1 and 2 by farmer 3, 3 by farmer 2
CartProducts == {1, 2, 3}
\* the product_id field of a form: those and the id of no product
ProductInputs == CartProducts \cup {4}
\* the role field of the profile form
RoleInputs == {"farmer", "transporter", ""}
\* the users who edit their profile
Movers == {3}
\* whether the profile form carries the hub's coordinates
HubGpsInputs == {TRUE}

\* one request per route that took effect
CartAdd == \E u \in UserIds, pid \in ProductInputs : cart_add(u, pid) /\ Alone /\ Written
CartRemove ==
    \E u \in UserIds, pid \in ProductInputs : cart_remove(u, pid) /\ Alone /\ Written
CartOrderPlace ==
    \E u \in UserIds, oid \in OrderIds, dest_gps \in DestGpsInputs :
        order_place(u, oid, dest_gps) /\ Alone /\ Written
ProductToggle ==
    \E u \in UserIds, pid \in ProductInputs :
        farmer_product_toggle(u, pid) /\ Alone /\ Written
ProfilePost ==
    \E u \in Movers, role \in RoleInputs, hub_gps \in HubGpsInputs :
        profile_post(u, role, hub_gps) /\ Alone /\ Written

\* one buyer, two approved farmers with their products on sale, two
\* transporters; users.is_active is written by no handler, the second
\* transporter's is either value
InitCart ==
    /\ \E a \in {0, 1} :
          users = [u \in UserIds |->
                     [role |-> IF u = 1 THEN "buyer"
                               ELSE IF u \in {2, 3} THEN "farmer" ELSE "transporter",
                      is_active |-> IF u = 5 THEN a ELSE 1,
                      farmer_status |-> IF u \in {2, 3} THEN "APPROVED" ELSE "NONE",
                      has_hub_gps |-> u \in {2, 3}]]
    /\ products = [p \in CartProducts |->
                     [farmer_user_id |-> IF p = 3 THEN 2 ELSE 3, is_active |-> 1]]
    /\ cart = [u \in UserIds |-> {}]
    /\ orders = << >>
    /\ order_items = << >>
    /\ quotes = << >>
    /\ notifications = << >>
    /\ order_locations = << >>
    /\ order_messages = << >>
    /\ inflight = [c \in Calls |-> Idle]
    /\ reply = [route |-> "none", text |-> "none"]
    /\ client = [since |-> 0, seen |-> << >>]

NextCart == CartAdd \/ CartRemove \/ CartOrderPlace \/ ProductToggle \/ ProfilePost

SpecCart == InitCart /\ [][NextCart]_vars

\* ------------------------------------------------------ farmer approvals
\* UPDATE users SET farmer_status=... WHERE id=user_id: the row with that id,
\* whatever its role; no row when the id is unknown
set_farmer_status(u, user_id, status) ==
    IF ~is_admin(u) THEN Refuse
    ELSE /\ users' = [x \in DOMAIN users |->
                        IF x = user_id THEN [users[x] EXCEPT !.farmer_status = status]
                        ELSE users[x]]
         /\ UNCHANGED <<products, cart, orders, order_items, quotes, notifications,
                        order_locations, order_messages, reply, client>>

\* POST /admin/farmer/approve
admin_farmer_approve(u, user_id) == set_farmer_status(u, user_id, "APPROVED")

\* POST /admin/farmer/decline
admin_farmer_decline(u, user_id) == set_farmer_status(u, user_id, "DECLINED")

\* the users who edit their profile here: the admin, a farmer, a transporter
Applicants == {2, 3, 4}
\* the role field of the profile form
ProfileRoles == {"buyer", "farmer", "transporter", ""}
\* the user_id field of the admin's forms: those users and the id of no user
UserIdInputs == Applicants \cup {9}

ProfileEdit ==
    \E u \in Applicants, role \in ProfileRoles, hub_gps \in HubGpsInputs :
        profile_post(u, role, hub_gps) /\ Alone /\ Written
AdminApprove ==
    \E u \in UserIds, user_id \in UserIdInputs :
        admin_farmer_approve(u, user_id) /\ Alone /\ Written
AdminDecline ==
    \E u \in UserIds, user_id \in UserIdInputs :
        admin_farmer_decline(u, user_id) /\ Alone /\ Written

InitAdmin == Start({})
NextAdmin == ProfileEdit \/ AdminApprove \/ AdminDecline
SpecAdmin == InitAdmin /\ [][NextAdmin]_vars

\* ------------------------------------------------- delivery under fairness
\* The calls of the order and quote handlers with the rows they write to
\* orders and quotes.  None of these handlers reads the notifications table,
\* and its rows are left out here, so that a behaviour of unboundedly many
\* calls is a cycle of a finite graph; order_place is the whole handler.
LiveRest ==
    UNCHANGED <<users, products, cart, order_items, notifications, order_locations,
                order_messages, inflight, reply, client>>

LiveAccept ==
    \E u \in UserIds, oid \in OrderIds, qid \in QuoteIds :
        /\ role_required(u, {"buyer"})
        /\ accept_reads(u, oid, qid)
        /\ accept_rows(oid, qid)
        /\ LiveRest
LiveDecline ==
    \E u \in UserIds, oid \in OrderIds, qid \in QuoteIds :
        /\ role_required(u, {"buyer"})
        /\ oid \in DOMAIN orders /\ orders[oid].buyer_user_id = u
        /\ quotes' = decline_updates(quotes, oid, qid)
        /\ UNCHANGED orders
        /\ LiveRest
LiveQuote ==
    \E u \in UserIds, oid \in OrderIds, price \in Prices :
        /\ role_required(u, {"transporter"})
        /\ quote_reads(oid, price)
        /\ quote_rows(u, oid, price)
        /\ Len(quotes') <= MaxQuotes
        /\ UNCHANGED orders
        /\ LiveRest
LiveStart(u, oid) ==
    /\ role_required(u, {"transporter"})
    /\ milestone_reads(u, oid, "QUOTE_ACCEPTED")
    /\ milestone_rows(oid, "IN_TRANSIT")
    /\ UNCHANGED quotes
    /\ LiveRest
LiveArrive(u, oid) ==
    /\ role_required(u, {"transporter"})
    /\ milestone_reads(u, oid, "IN_TRANSIT")
    /\ milestone_rows(oid, "ARRIVED")
    /\ UNCHANGED quotes
    /\ LiveRest
LiveDeliver(u, oid) ==
    /\ role_required(u, {"transporter"})
    /\ milestone_reads(u, oid, "ARRIVED")
    /\ deliver_rows(oid, orders[oid].accepted_quote_id)
    /\ LiveRest
LiveMilestone ==
    \E u \in UserIds, oid \in OrderIds :
        LiveStart(u, oid) \/ LiveArrive(u, oid) \/ LiveDeliver(u, oid)

\* a transporter who can start, arrive or deliver an order does so in the end
LiveFair ==
    \A u \in Transporters, oid \in OrderIds :
        /\ WF_vars(LiveStart(u, oid))
        /\ WF_vars(LiveArrive(u, oid))
        /\ WF_vars(LiveDeliver(u, oid))

InitLive == Start(Buyers)
NextLive ==
    \/ OrderPlace(MaxNotifs)
    \/ LiveAccept
    \/ LiveDecline
    \/ LiveQuote
    \/ LiveMilestone
SpecLive == InitLive /\ [][NextLive]_vars /\ LiveFair

\* ------------------------------------------- orders of a product's owner
\* a farmer with a product on sale becomes a buyer (POST /profile) and orders
\* that product; the order then runs through its life
OwnNotifs == 11      \* rows the notifications table can hold, owner's orders

ProfileSwitch ==
    \E u \in Movers, role \in ProfileRoles, hub_gps \in HubGpsInputs :
        profile_post(u, role, hub_gps) /\ Alone /\ Written

OwnerCartAdd ==
    \E u \in Movers, pid \in ProductInputs : cart_add(u, pid) /\ Alone /\ Written

InitOwn == Start({})
NextOwn ==
    \/ ProfileSwitch
    \/ OwnerCartAdd
    \/ OrderPlace(OwnNotifs)
    \/ TransportQuote(OwnNotifs)
    \/ QuoteAccept(OwnNotifs)
    \/ TransportStart(OwnNotifs)
    \/ TransportArrive(OwnNotifs)
    \/ TransportDeliver(OwnNotifs)
SpecOwn == InitOwn /\ [][NextOwn]_vars

\* ------------------------------------------- commits within one request
\* quote_accept, transport_start_trip, transport_arrive and transport_deliver
\* commit their UPDATEs with db_commit() and call notify_user afterwards, and
\* every notify_user call is an INSERT with a commit of its own: each commit
\* is a step here, other requests are served in between, and a request may
\* stop between two commits (the worker is killed, an INSERT fails).
SplitNotifs == 7     \* rows the notifications table can hold, commit by commit

\* worker c has committed its UPDATEs and still has notify_user calls to make:
\* for these user ids in this order, with this kind, about this order
notifying(c, uids, kind, oid) ==
    inflight' = [inflight EXCEPT ![c] =
                    IF uids = << >> THEN Idle
                    ELSE [route |-> "notifying", uids |-> uids, kind |-> kind,
                          oid |-> oid]]

\* worker c takes a request while no other request is between two commits
no_request_open(c) == free_worker(c) /\ \A d \in Calls : inflight[d] = Idle

\* the rows of quote_accept's second SELECT, read after the QUOTE_ACCEPTED row
\* was committed: the transporters of the order's other quotes
declined_uids(oid) ==
    LET declined == SortedSeq({i \in DOMAIN quotes :
                        quotes[i].order_id = oid /\ i # orders[oid].accepted_quote_id})
    IN  [k \in DOMAIN declined |-> quotes[declined[k]].transporter_user_id]

AcceptCommit ==
    \E c \in Calls, u \in UserIds, oid \in OrderIds, qid \in QuoteIds :
        /\ no_request_open(c)
        /\ role_required(u, {"buyer"})
        /\ accept_reads(u, oid, qid)
        /\ accept_rows(oid, qid)
        /\ notifying(c, <<quotes[qid].transporter_user_id>>, "QUOTE_ACCEPTED", oid)
        /\ UNCHANGED <<users, products, cart, order_items, notifications,
                       order_locations, order_messages, reply, client>>

StartCommit ==
    \E c \in Calls, u \in UserIds, oid \in OrderIds :
        /\ no_request_open(c)
        /\ role_required(u, {"transporter"})
        /\ milestone_reads(u, oid, "QUOTE_ACCEPTED")
        /\ milestone_rows(oid, "IN_TRANSIT")
        /\ notifying(c, milestone_audience(oid), "IN_TRANSIT", oid)
        /\ UNCHANGED <<users, products, cart, order_items, quotes, notifications,
                       order_locations, order_messages, reply, client>>

ArriveCommit ==
    \E c \in Calls, u \in UserIds, oid \in OrderIds :
        /\ no_request_open(c)
        /\ role_required(u, {"transporter"})
        /\ milestone_reads(u, oid, "IN_TRANSIT")
        /\ milestone_rows(oid, "ARRIVED")
        /\ notifying(c, milestone_audience(oid), "ARRIVED", oid)
        /\ UNCHANGED <<users, products, cart, order_items, quotes, notifications,
                       order_locations, order_messages, reply, client>>

DeliverCommit ==
    \E c \in Calls, u \in UserIds, oid \in OrderIds :
        /\ no_request_open(c)
        /\ role_required(u, {"transporter"})
        /\ milestone_reads(u, oid, "ARRIVED")
        /\ deliver_rows(oid, orders[oid].accepted_quote_id)
        /\ notifying(c, milestone_audience(oid), "DELIVERED", oid)
        /\ UNCHANGED <<users, products, cart, order_items, notifications,
                       order_locations, order_messages, reply, client>>

\* the next notify_user call of the request: its INSERT and its commit; after
\* the QUOTE_ACCEPTED row the accept goes on with its QUOTE_DECLINED calls
NotifyNext ==
    \E c \in Calls :
        /\ inflight[c].route = "notifying"
        /\ Len(notifications) < SplitNotifs
        /\ notifications' = notify_user(notifications, Head(inflight[c].uids),
                                        inflight[c].kind, inflight[c].oid)
        /\ IF inflight[c].kind = "QUOTE_ACCEPTED"
           THEN notifying(c, declined_uids(inflight[c].oid), "QUOTE_DECLINED",
                          inflight[c].oid)
           ELSE notifying(c, Tail(inflight[c].uids), inflight[c].kind, inflight[c].oid)
        /\ UNCHANGED <<users, products, cart, orders, order_items, quotes,
                       order_locations, order_messages, reply, client>>

\* the request stops where it is
RequestStops ==
    \E c \in Calls :
        /\ inflight[c].route = "notifying"
        /\ done(c)
        /\ UNCHANGED <<tables, reply, client>>

InitSplit == Start({1})
NextSplit ==
    \/ OrderPlace(SplitNotifs)
    \/ TransportQuote(SplitNotifs)
    \/ AcceptCommit
    \/ StartCommit
    \/ ArriveCommit
    \/ DeliverCommit
    \/ NotifyNext
    \/ RequestStops
SpecSplit == InitSplit /\ [][NextSplit]_vars

\* ------------------------------------------------------------ properties

QuotesOf(o) == {q \in DOMAIN quotes : quotes[q].order_id = o}

\* the quote row an order's accepted_quote_id names, if there is one
HasAccepted(o) == orders[o].accepted_quote_id \in DOMAIN quotes

\* C1: an order in QUOTE_ACCEPTED has exactly one ACCEPTED quote and all its
\* other quotes are DECLINED or DELIVERED.
C1_OneWinner ==
    \A o \in DOMAIN orders :
        orders[o].status = "QUOTE_ACCEPTED" =>
            /\ Cardinality({q \in QuotesOf(o) : quotes[q].status = "ACCEPTED"}) = 1
            /\ \A q \in QuotesOf(o) :
                  quotes[q].status \in {"ACCEPTED", "DECLINED", "DELIVERED"}

C1_Witness ==
    \E o \in DOMAIN orders :
        /\ orders[o].status = "QUOTE_ACCEPTED"
        /\ \E q1, q2 \in QuotesOf(o) :
              quotes[q1].status = "ACCEPTED" /\ quotes[q2].status = "DECLINED"

LegalTransitions ==
    { <<"NEEDS_QUOTES", "QUOTE_ACCEPTED">>, <<"QUOTE_ACCEPTED", "IN_TRANSIT">>,
      <<"IN_TRANSIT", "ARRIVED">>, <<"ARRIVED", "DELIVERED">> }

\* C2 (as claimed): every change of an order's status is one step of the
\* sequence NEEDS_QUOTES, QUOTE_ACCEPTED, IN_TRANSIT, ARRIVED, DELIVERED, and
\* an accept on an order that is not in NEEDS_QUOTES changes no status.
C2_Claim ==
    [][ /\ \A o \in DOMAIN orders :
              orders'[o].status # orders[o].status =>
                  <<orders[o].status, orders'[o].status>> \in LegalTransitions
        /\ \A u \in UserIds, o \in DOMAIN orders, q \in QuoteIds :
              quote_accept(u, o, q) /\ orders[o].status # "NEEDS_QUOTES" =>
                  orders'[o].status = orders[o].status ]_vars

\* C3 (as claimed): once an order is DELIVERED its status never changes.
C3_Claim ==
    [][ \A o \in DOMAIN orders :
            orders[o].status = "DELIVERED" => orders'[o].status = "DELIVERED" ]_vars

\* the caller is not the transporter of the order's accepted quote, or that
\* quote is not ACCEPTED
NotAssigned(u, o) ==
    \/ o \notin DOMAIN orders
    \/ ~HasAccepted(o)
    \/ quotes[orders[o].accepted_quote_id].transporter_user_id # u
    \/ quotes[orders[o].accepted_quote_id].status # "ACCEPTED"

\* C4: a start, arrive or deliver call by a user who is not the transporter of
\* the accepted quote, or made while that quote is not ACCEPTED, changes no
\* order, quote or notification row.
C4_OnlyAssignedTransporter ==
    [][ \/ UNCHANGED <<orders, quotes, notifications>>
        \/ \A u \in UserIds, o \in OrderIds :
              NotAssigned(u, o) =>
                  ~ \/ transport_start_trip(u, o)
                    \/ transport_arrive(u, o)
                    \/ transport_deliver(u, o) ]_vars

\* an order waits for its next milestone while another transporter, who lost
\* the bid, is logged in and can post the milestone request
C4_Witness ==
    \E o \in DOMAIN orders, u \in UserIds :
        /\ users[u].role = "transporter"
        /\ orders[o].status \in {"QUOTE_ACCEPTED", "IN_TRANSIT", "ARRIVED"}
        /\ \E q \in QuotesOf(o) : quotes[q].transporter_user_id = u
        /\ NotAssigned(u, o)

\* C5 (as claimed): an accept that takes effect was called by the buyer of the
\* order, on a quote of that order whose status was SUBMITTED.
C5_Claim ==
    [][ Written =>
        \A u \in UserIds, o \in OrderIds, q \in QuoteIds :
            quote_accept(u, o, q) =>
                /\ o \in DOMAIN orders
                /\ orders[o].buyer_user_id = u
                /\ q \in QuotesOf(o)
                /\ quotes[q].status = "SUBMITTED" ]_vars

\* C6: a successful accept of quote q on order o makes q ACCEPTED, every other
\* quote of o that was not DELIVERED DECLINED, sets o to QUOTE_ACCEPTED with
\* accepted_quote_id = q, and leaves every other order and its quotes alone.
C6_AcceptEffect ==
    [][ Written =>
        \A u \in UserIds, o \in OrderIds, q \in QuoteIds :
            quote_accept(u, o, q) =>
                /\ DOMAIN quotes' = DOMAIN quotes
                /\ DOMAIN orders' = DOMAIN orders
                /\ quotes'[q].status = "ACCEPTED"
                /\ \A i \in QuotesOf(o) \ {q} :
                      quotes'[i].status =
                          IF quotes[i].status = "DELIVERED" THEN "DELIVERED" ELSE "DECLINED"
                /\ orders'[o].status = "QUOTE_ACCEPTED"
                /\ orders'[o].accepted_quote_id = q
                /\ \A o2 \in DOMAIN orders \ {o} : orders'[o2] = orders[o2]
                /\ \A i \in DOMAIN quotes \ QuotesOf(o) : quotes'[i] = quotes[i] ]_vars

\* an accept has been applied to one order while a second order holds a quote
\* that the accept left SUBMITTED
C6_Witness ==
    \E o, o2 \in DOMAIN orders :
        /\ o # o2
        /\ orders[o].status = "QUOTE_ACCEPTED"
        /\ HasAccepted(o)
        /\ quotes[orders[o].accepted_quote_id].status = "ACCEPTED"
        /\ orders[o2].status = "NEEDS_QUOTES"
        /\ \E i \in QuotesOf(o2) : quotes[i].status = "SUBMITTED"

\* C7 (as claimed): a set accepted_quote_id names a quote of that order whose
\* status is ACCEPTED.
C7_Claim ==
    \A o \in DOMAIN orders :
        orders[o].accepted_quote_id # NULL =>
            /\ orders[o].accepted_quote_id \in QuotesOf(o)
            /\ quotes[orders[o].accepted_quote_id].status = "ACCEPTED"

\* C7 (amended): a set accepted_quote_id names a quote of that order whose
\* status is ACCEPTED, or DELIVERED once the order itself is DELIVERED.
C7_AcceptedQuoteRef ==
    \A o \in DOMAIN orders :
        orders[o].accepted_quote_id # NULL =>
            /\ orders[o].accepted_quote_id \in QuotesOf(o)
            /\ \/ quotes[orders[o].accepted_quote_id].status = "ACCEPTED"
               \/ /\ quotes[orders[o].accepted_quote_id].status = "DELIVERED"
                  /\ orders[o].status = "DELIVERED"

\* a delivered order still names its quote, which is DELIVERED by then
C7_Witness ==
    \E o \in DOMAIN orders :
        /\ orders[o].status = "DELIVERED"
        /\ orders[o].accepted_quote_id # NULL
        /\ orders[o].accepted_quote_id \in QuotesOf(o)
        /\ quotes[orders[o].accepted_quote_id].status = "DELIVERED"

\* C8: an order never has two quotes whose status is ACCEPTED or DELIVERED.
C8_AtMostOneWinner ==
    \A o \in DOMAIN orders :
        Cardinality({q \in QuotesOf(o) : quotes[q].status \in {"ACCEPTED", "DELIVERED"}}) <= 1

\* a delivered order: the winning quote DELIVERED, the losing quote DECLINED
C8_Witness ==
    \E o \in DOMAIN orders :
        \E q1, q2 \in QuotesOf(o) :
            quotes[q1].status = "DELIVERED" /\ quotes[q2].status = "DECLINED"

C10_DeliveredTogether ==
    /\ [](\A o \in DOMAIN orders :
             orders[o].status = "DELIVERED" <=>
                 (HasAccepted(o) /\ quotes[orders[o].accepted_quote_id].status = "DELIVERED"))
    /\ [][ Written =>
            \A u \in UserIds, o \in OrderIds :
              transport_deliver(u, o) =>
                  /\ orders[o].status = "ARRIVED"
                  /\ orders'[o].status = "DELIVERED"
                  /\ quotes[orders[o].accepted_quote_id].status = "ACCEPTED"
                  /\ quotes'[orders[o].accepted_quote_id].status = "DELIVERED" ]_vars

\* the deliver call was the last request served
C10_Witness ==
    \E o \in DOMAIN orders :
        /\ orders[o].status = "DELIVERED"
        /\ HasAccepted(o)
        /\ quotes[orders[o].accepted_quote_id].status = "DELIVERED"
        /\ notifications # << >>
        /\ notifications[Len(notifications)].kind = "DELIVERED"
        /\ notifications[Len(notifications)].order_id = o

\* the accept call names an order that is not the caller's, a quote that is not
\* a quote of that order, or a quote that is already DECLINED
AcceptNotFound(u, o, q) ==
    \/ o \notin DOMAIN orders
    \/ orders[o].buyer_user_id # u
    \/ q \notin QuotesOf(o)
    \/ quotes[q].status = "DECLINED"

\* C11: an accept call on an order that is not the caller's, on a quote that is
\* not of the named order, or on a DECLINED quote changes no order, quote or
\* notification row.
C11_AcceptRefused ==
    [][ \/ UNCHANGED <<orders, quotes, notifications>>
        \/ \A u \in UserIds, o \in OrderIds, q \in QuoteIds :
              AcceptNotFound(u, o, q) => ~quote_accept(u, o, q) ]_vars

\* two buyers each own an order; one order holds a DECLINED quote and the
\* other a SUBMITTED quote, so each of the three refusals can be provoked
C11_Witness ==
    \E o1, o2 \in DOMAIN orders :
        /\ orders[o1].buyer_user_id # orders[o2].buyer_user_id
        /\ \E q \in QuotesOf(o1) : quotes[q].status = "DECLINED"
        /\ \E q \in QuotesOf(o2) : quotes[q].status = "SUBMITTED"

\* C12: a decline by the owning buyer on a SUBMITTED quote of the order makes
\* exactly that quote DECLINED and leaves the orders table (status and
\* accepted_quote_id) and every other quote as they were.
C12_DeclineEffect ==
    [][ Written =>
        \A u \in UserIds, o \in OrderIds, q \in QuoteIds :
            /\ quote_decline(u, o, q)
            /\ o \in DOMAIN orders
            /\ orders[o].buyer_user_id = u
            /\ q \in QuotesOf(o)
            /\ quotes[q].status = "SUBMITTED"
            => /\ DOMAIN quotes' = DOMAIN quotes
               /\ quotes'[q] = [quotes[q] EXCEPT !.status = "DECLINED"]
               /\ \A i \in DOMAIN quotes \ {q} : quotes'[i] = quotes[i]
               /\ orders' = orders ]_vars

\* a decline was the last request served: it left the order open for quotes
\* with one quote DECLINED beside one still SUBMITTED
C12_Witness ==
    \E o \in DOMAIN orders :
        /\ orders[o].status = "NEEDS_QUOTES"
        /\ orders[o].accepted_quote_id = NULL
        /\ \E q1, q2 \in QuotesOf(o) :
              quotes[q1].status = "DECLINED" /\ quotes[q2].status = "SUBMITTED"
        /\ notifications # << >>
        /\ notifications[Len(notifications)].kind = "QUOTE_DECLINED"

\* C13 (as claimed): a decline that names a quote which is not SUBMITTED, or
\* which is not a quote of the named order, changes no quote row and appends
\* no notification row.
C13_Claim ==
    [][ \A u \in UserIds, o \in OrderIds, q \in QuoteIds :
            /\ quote_decline(u, o, q)
            /\ (q \notin QuotesOf(o) \/ quotes[q].status # "SUBMITTED")
            => UNCHANGED <<quotes, notifications>> ]_vars

\* C14: a submit-quote call that writes anything was made with price > 0 on an
\* existing order in NEEDS_QUOTES; it appends one SUBMITTED quote of the caller
\* and one QUOTE notification for the order's buyer and nothing else; every
\* other submit-quote call writes no quote row and no notification row.
C14_SubmitQuote ==
    [][ \/ UNCHANGED <<quotes, notifications, orders>>
        \/ \A u \in UserIds, o \in OrderIds, p \in Prices :
            transport_quote(u, o, p) =>
                IF p > 0 /\ o \in DOMAIN orders /\ orders[o].status = "NEEDS_QUOTES"
                THEN /\ quotes' = Append(quotes, [order_id |-> o, transporter_user_id |-> u,
                                                  price |-> p, status |-> "SUBMITTED"])
                     /\ notifications' =
                           Append(notifications, [user_id |-> orders[o].buyer_user_id,
                                                  kind |-> "QUOTE", order_id |-> o])
                     /\ orders' = orders
                ELSE UNCHANGED <<quotes, notifications, orders>> ]_vars

\* a second quote has just been submitted on an order that already had one
C14_Witness ==
    /\ Len(quotes) = 2
    /\ quotes[2].status = "SUBMITTED"
    /\ quotes[1].order_id = quotes[2].order_id
    /\ notifications # << >>
    /\ notifications[Len(notifications)] =
          [user_id |-> orders[quotes[2].order_id].buyer_user_id,
           kind |-> "QUOTE", order_id |-> quotes[2].order_id]

\* worker c answers a request of the given route in this step
Answers(c, route) == inflight[c].route = route /\ inflight'[c] = Idle

\* C15 (as claimed): of two start calls on the same QUOTE_ACCEPTED order served
\* side by side only one applies the transition: a start call that comes to
\* its write when the order has already left QUOTE_ACCEPTED appends no
\* IN_TRANSIT notification.
C15_Claim ==
    [][ \A c \in Calls :
            Answers(c, "start") /\ orders[inflight[c].order_id].status # "QUOTE_ACCEPTED"
            => notifications' = notifications ]_vars

\* the transporters that were told their quote on order o was accepted
Winners(o) ==
    {notifications[i].user_id : i \in {j \in DOMAIN notifications :
        notifications[j].kind = "QUOTE_ACCEPTED" /\ notifications[j].order_id = o}}

\* C16 (as claimed): of two accepts of different SUBMITTED quotes of one order
\* served side by side at most one succeeds: the order never has two ACCEPTED
\* quotes, only one transporter is told QUOTE_ACCEPTED, and no quote goes
\* from DECLINED to ACCEPTED.
C16_Claim ==
    /\ [](\A o \in DOMAIN orders :
             /\ Cardinality({q \in QuotesOf(o) : quotes[q].status = "ACCEPTED"}) <= 1
             /\ Cardinality(Winners(o)) <= 1)
    /\ [][ \A q \in DOMAIN quotes :
              quotes[q].status = "DECLINED" => quotes'[q].status # "ACCEPTED" ]_vars

\* the place of a status in NEEDS_QUOTES < QUOTE_ACCEPTED < IN_TRANSIT < ARRIVED < DELIVERED
StatusRank(st) ==
    CASE st = "NEEDS_QUOTES"   -> 1
      [] st = "QUOTE_ACCEPTED" -> 2
      [] st = "IN_TRANSIT"     -> 3
      [] st = "ARRIVED"        -> 4
      [] st = "DELIVERED"      -> 5
      [] OTHER                 -> 0

\* C17 (as claimed): the write of a start, arrive or deliver call never moves
\* an order's status backward, whatever ran between its read and its write.
C17_Claim ==
    [][ \A c \in Calls :
            Answers(c, "start") \/ Answers(c, "arrive") \/ Answers(c, "deliver") =>
                StatusRank(orders'[inflight[c].order_id].status)
                    >= StatusRank(orders[inflight[c].order_id].status) ]_vars

\* C18 (as claimed): an order that has left NEEDS_QUOTES has no SUBMITTED quote.
C18_Claim ==
    \A o \in DOMAIN orders :
        orders[o].status # "NEEDS_QUOTES" =>
            \A q \in QuotesOf(o) : quotes[q].status # "SUBMITTED"

\* the participants of an order as the specification lists them
ParticipantSet(o) ==
    IF o \notin DOMAIN orders THEN {}
    ELSE {orders[o].buyer_user_id}
         \cup {products[p].farmer_user_id : p \in order_items[o]}
         \cup (IF orders[o].accepted_quote_id # NULL
               THEN {quotes[orders[o].accepted_quote_id].transporter_user_id}
               ELSE {})

\* the answers that refuse a request for lack of access
Forbidden == {"no_access", "forbidden"}

\* the step answers a request on the given route, served by the given handler
Served(route, handler) == reply'.route = route /\ handler

\* C19: the participant set computed for an order is its buyer, the farmers of
\* its items and the transporter of its accepted quote if one is set; a user
\* outside it is refused by the track page, the track API, the chat page, the
\* read-messages API and the send-message API, and that request writes nothing.
C19_ParticipantsOnly ==
    /\ [](\A o \in OrderIds : order_participant_ids(o) = ParticipantSet(o))
    /\ [][ \/ reply'.text \in Forbidden /\ UNCHANGED <<tables, inflight>>
           \/ \A o \in OrderIds : \A u \in UserIds \ ParticipantSet(o) :
                 ~ \/ Served("track_order", track_order(u, o))
                   \/ Served("api_order_track", api_order_track(u, o))
                   \/ Served("chat_order", chat_order(u, o))
                   \/ Served("api_order_messages", api_order_messages(u, o))
                   \/ Served("api_order_send_message",
                             \E msg \in Messages : api_order_send_message(u, o, msg)) ]_vars

\* an order is awarded, a transporter who bid and lost is outside its
\* participants, and a send-message request has just been refused
C19_Witness ==
    \E o \in DOMAIN orders :
        /\ orders[o].accepted_quote_id # NULL
        /\ \E q \in QuotesOf(o) :
              quotes[q].transporter_user_id \notin order_participant_ids(o)
        /\ reply = [route |-> "api_order_send_message", text |-> "forbidden"]

\* the answers that refuse a chat request
ChatRefused == Forbidden \cup {"chat_after_accept", "chat_not_active"}

\* C20 (as claimed): while an order has no accepted transporter the chat page,
\* the read-messages API and the send-message API refuse every user, and the
\* request stores no message and appends no notification.
C20_Claim ==
    [][ \A u \in UserIds, o \in DOMAIN orders :
            /\ orders[o].accepted_quote_id = NULL
            /\ \/ chat_order(u, o)
               \/ api_order_messages(u, o)
               \/ \E msg \in Messages : api_order_send_message(u, o, msg)
            => /\ reply'.text \in ChatRefused
               /\ UNCHANGED <<order_messages, notifications>> ]_vars

\* the user is not the transporter of the quote the order's accepted_quote_id names
NotAcceptedTransporter(u, o) ==
    \/ o \notin DOMAIN orders
    \/ ~HasAccepted(o)
    \/ quotes[orders[o].accepted_quote_id].transporter_user_id # u

\* C21: every order_locations row with role 'transporter' was written by the
\* transporter of the quote the order's accepted_quote_id names, and a location
\* ping by any other user stores no row.
C21_PingsByAcceptedTransporter ==
    /\ [](\A i \in Pings(order_locations) :
             ~NotAcceptedTransporter(order_locations[i].user_id,
                                     order_locations[i].order_id))
    /\ [][ \/ UNCHANGED order_locations
           \/ \A u \in UserIds, o \in OrderIds :
                 NotAcceptedTransporter(u, o) =>
                     \A ping \in PingInputs :
                         ~api_order_location(u, o, ping[1], ping[2]) ]_vars

\* a ping of the accepted transporter is stored, and the ping of a transporter
\* who bid on the same order and lost has just been refused
C21_Witness ==
    /\ \E i \in Pings(order_locations) :
          \E q \in QuotesOf(order_locations[i].order_id) :
              quotes[q].transporter_user_id # order_locations[i].user_id
    /\ reply = [route |-> "api_order_location", text |-> "not_accepted_transporter"]

\* the field is a number of degrees between lo and hi, both included
InBounds(x, lo, hi) == x.kind = "number" /\ x.deg \in lo..hi

Max(S) == CHOOSE x \in S : \A y \in S : x >= y

\* the cursor a poll runs with: the since parameter, 0 when it is no integer
Cursor(since_raw) == IF since_raw.kind = "number" THEN since_raw.val ELSE 0

\* the ids of the notifications of user u that are newer than the cursor
Pending(u, since) ==
    {i \in DOMAIN notifications : notifications[i].user_id = u /\ i > since}

\* the ids a poll has just returned
Returned == {reply'.items[k] : k \in DOMAIN reply'.items}

\* C23: a poll of user u with cursor since returns the notifications of u with
\* id > since in ascending id order, the 25 smallest of them when there are
\* more, and no row of another user; latest_id is the largest id returned, or
\* since when nothing is returned.
C23_PollPage ==
    [][ \A u \in PollUsers, since_raw \in SinceInputs :
            api_notifications(u, since_raw) =>
                LET since == Cursor(since_raw)
                    items == reply'.items
                IN  /\ \A k \in 1..(Len(items) - 1) : items[k] < items[k + 1]
                    /\ Returned \subseteq Pending(u, since)
                    /\ Len(items) = Min({PageSize, Cardinality(Pending(u, since))})
                    /\ \A i \in Pending(u, since) \ Returned : \A j \in Returned : j < i
                    /\ reply'.latest_id = IF items = << >> THEN since ELSE Max(Returned) ]_vars

\* a poll has returned a full page that passes over a row of another user
\* and stops before a newer row of the polling user
C23_Witness ==
    /\ reply.route = "api_notifications"
    /\ Len(reply.items) = PageSize
    /\ \E i \in DOMAIN notifications :
          /\ reply.items[1] < i /\ i < reply.latest_id
          /\ notifications[i].user_id # notifications[reply.latest_id].user_id
    /\ \E i \in DOMAIN notifications :
          /\ i > reply.latest_id
          /\ notifications[i].user_id = notifications[reply.latest_id].user_id

\* C24 (as claimed): a poll with cursor since returns no item with id <= since
\* and omits no item of its user with id > since that is in the table.
C24_Claim ==
    [][ \A u \in PollUsers, since_raw \in SinceInputs :
            api_notifications(u, since_raw) =>
                /\ \A j \in Returned : j > Cursor(since_raw)
                /\ Pending(u, Cursor(since_raw)) \subseteq Returned ]_vars

\* C24 (amended): a poll with cursor since returns no item with id <= since,
\* and it omits an item of its user with id > since that is in the table only
\* when it returns 25 items, all of them with smaller ids.
C24_Monotonic ==
    [][ \A u \in PollUsers, since_raw \in SinceInputs :
            api_notifications(u, since_raw) =>
                /\ \A j \in Returned : j > Cursor(since_raw)
                /\ \A i \in Pending(u, Cursor(since_raw)) \ Returned :
                      /\ Cardinality(Returned) = PageSize
                      /\ \A j \in Returned : j < i ]_vars

\* a poll with a cursor past the first row of its user has returned 25 newer
\* rows and left out a row that is newer still
C24_Witness ==
    /\ reply.route = "api_notifications"
    /\ Len(reply.items) = PageSize
    /\ \E i \in DOMAIN notifications :
          /\ i < reply.items[1]
          /\ notifications[i].user_id = notifications[reply.latest_id].user_id
    /\ \E i \in DOMAIN notifications :
          /\ i > reply.latest_id
          /\ notifications[i].user_id = notifications[reply.latest_id].user_id

\* C25 (as claimed): a browser that starts with since = 0 and always polls
\* with the latest_id of its previous poll is given the notifications of its
\* user in ascending id order, none twice and none skipped: every row of its
\* user that can be read and is not newer than its cursor has been given to it.
C25_Claim ==
    /\ \A k \in 1..(Len(client.seen) - 1) : client.seen[k] < client.seen[k + 1]
    /\ \A k \in DOMAIN client.seen : notifications[client.seen[k]].user_id = 1
    /\ \A i \in DOMAIN notifications :
          committed(i) /\ notifications[i].user_id = 1 /\ i <= client.since
              => \E k \in DOMAIN client.seen : client.seen[k] = i

\* C26: no request modifies or deletes a notification row, and every row it
\* adds has an id above all existing ids; each notify_user call adds exactly
\* one row even when an equal row exists: a submit-quote that takes effect
\* adds one row, a start that takes effect one row for the buyer and one for
\* each farmer of the order.
C26_AppendOnly ==
    [][ Written =>
        /\ Len(notifications') >= Len(notifications)
        /\ SubSeq(notifications', 1, Len(notifications)) = notifications
        /\ \A u \in UserIds, o \in OrderIds :
              /\ (\E p \in Prices : transport_quote(u, o, p)) =>
                     Len(notifications') = Len(notifications) + 1
              /\ transport_start_trip(u, o) =>
                     Len(notifications') =
                         Len(notifications) + 1 + Cardinality(order_farmers(o)) ]_vars

\* the row added last equals a row that was in the table already
C26_Witness ==
    /\ Len(notifications) >= 2
    /\ \E i \in 1..(Len(notifications) - 1) :
          notifications[i] = notifications[Len(notifications)]

C28_EmptyCart ==
    [][ /\ \A u \in UserIds :
              cart[u] = {} =>
                  /\ \A o \in DOMAIN orders' : o \in DOMAIN orders \/ orders'[o].buyer_user_id # u
                  /\ \A oid \in OrderIds, dest_gps \in DestGpsInputs :
                        order_place(u, oid, dest_gps) => UNCHANGED tables
        /\ DOMAIN orders' = DOMAIN orders =>
               UNCHANGED <<orders, order_items, order_locations, notifications>> ]_vars

\* a buyer who has placed an order has an empty cart, and a token is left
C28_Witness ==
    \E o \in DOMAIN orders :
        /\ cart[orders[o].buyer_user_id] = {}
        /\ users[orders[o].buyer_user_id].role = "buyer"
        /\ DOMAIN orders # OrderIds

\* C29: an order is created only when the cart holds a product that is on sale
\* and the cart's products on sale are all by one farmer; its items are at
\* least one, each a cart product on sale at that moment, all by one farmer;
\* a place-order on any other cart writes nothing and keeps the cart.
C29_Checkout ==
    [][ \A u \in UserIds :
            LET onsale == {p \in cart[u] \cap DOMAIN products : products[p].is_active = 1}
                one_farmer(ps) == Cardinality({products[p].farmer_user_id : p \in ps}) = 1
            IN  /\ \A oid \in OrderIds :
                      /\ oid \notin DOMAIN orders /\ oid \in DOMAIN orders'
                      /\ orders'[oid].buyer_user_id = u
                      => /\ one_farmer(onsale)
                         /\ order_items'[oid] # {}
                         /\ order_items'[oid] \subseteq onsale
                         /\ one_farmer(order_items'[oid])
                /\ ~one_farmer(onsale) =>
                      \A oid \in OrderIds, dest_gps \in DestGpsInputs :
                          order_place(u, oid, dest_gps) => UNCHANGED tables ]_vars

\* an order exists while another product of its farmer is off sale
C29_Witness ==
    \E o \in DOMAIN orders : \E p \in DOMAIN products :
        /\ order_items[o] # {}
        /\ p \notin order_items[o]
        /\ products[p].is_active = 0
        /\ \E q \in order_items[o] : products[q].farmer_user_id = products[p].farmer_user_id

\* C30: every cart holds products of one farmer at most, whatever was added,
\* removed or ordered; a product enters a cart only if it exists, is on sale
\* and is by the farmer of the products the cart holds already.
C30_OneFarmerCart ==
    [][ \A u \in UserIds :
            /\ cart'[u] \subseteq DOMAIN products
            /\ Cardinality({products[p].farmer_user_id : p \in cart'[u]}) <= 1
            /\ \A pid \in cart'[u] \ cart[u] :
                  /\ pid \in DOMAIN products
                  /\ products[pid].is_active = 1
                  /\ \A p \in cart[u] :
                        products[p].farmer_user_id = products[pid].farmer_user_id ]_vars

\* a cart with two products of one farmer while another farmer's is on sale
C30_Witness ==
    \E u \in UserIds : \E pid \in DOMAIN products :
        /\ Cardinality(cart[u]) = 2
        /\ products[pid].is_active = 1
        /\ \A p \in cart[u] : products[p].farmer_user_id # products[pid].farmer_user_id

\* C31: a user whose farmer_status is PENDING, APPROVED or DECLINED has role
\* farmer; a user with any other role has farmer_status NONE.
C31_Claim ==
    \A u \in DOMAIN users :
        users[u].farmer_status # "NONE" => users[u].role = "farmer"

\* C32: with the accepted transporter's start, arrive and deliver calls weakly
\* fair, every order that is QUOTE_ACCEPTED is DELIVERED later, its accepted
\* quote DELIVERED too, whatever accept, decline and submit-quote calls come
\* in between.
C32_Claim ==
    \A oid \in OrderIds :
        (oid \in DOMAIN orders /\ orders[oid].status = "QUOTE_ACCEPTED")
            ~> /\ oid \in DOMAIN orders
               /\ orders[oid].status = "DELIVERED"
               /\ orders[oid].accepted_quote_id \in DOMAIN quotes
               /\ quotes[orders[oid].accepted_quote_id].status = "DELIVERED"

\* C33: an accept of quote q that takes effect adds exactly one QUOTE_ACCEPTED
\* row, for q's transporter, and one QUOTE_DECLINED row for each other quote
\* this accept moved to DECLINED, for that quote's transporter; it adds none
\* for a quote whose status it did not change.
C33_Claim ==
    [][ \A u \in Buyers, oid \in OrderIds, qid \in QuoteIds :
            Written /\ quote_accept(u, oid, qid) =>
                LET new == SubSeq(notifications', Len(notifications) + 1,
                                  Len(notifications'))
                    sent(x, kind) ==
                        Cardinality({k \in DOMAIN new :
                            new[k] = [user_id |-> x, kind |-> kind, order_id |-> oid]})
                    moved(x) ==
                        Cardinality({i \in DOMAIN quotes :
                            /\ i # qid
                            /\ quotes[i].transporter_user_id = x
                            /\ quotes[i].status # "DECLINED"
                            /\ quotes'[i].status = "DECLINED"})
                IN  /\ \A k \in DOMAIN new :
                          /\ new[k].kind \in {"QUOTE_ACCEPTED", "QUOTE_DECLINED"}
                          /\ new[k].order_id = oid
                    /\ \A x \in UserIds :
                          /\ sent(x, "QUOTE_ACCEPTED") =
                                 IF x = quotes[qid].transporter_user_id THEN 1 ELSE 0
                          /\ sent(x, "QUOTE_DECLINED") = moved(x) ]_vars

C35_Claim ==
    \A o \in DOMAIN orders :
        LET has(x, kind) ==
                \E i \in DOMAIN notifications :
                    notifications[i] = [user_id |-> x, kind |-> kind, order_id |-> o]
            st == orders[o].status
        IN  /\ st = "QUOTE_ACCEPTED" /\ orders[o].accepted_quote_id \in DOMAIN quotes
                => has(quotes[orders[o].accepted_quote_id].transporter_user_id,
                       "QUOTE_ACCEPTED")
            /\ st \in {"IN_TRANSIT", "ARRIVED", "DELIVERED"}
                => /\ has(orders[o].buyer_user_id, st)
                   /\ \A f \in order_farmers(o) : has(f, st)

\* C36: every order is created NEEDS_QUOTES with a null accepted_quote_id, and
\* an order is NEEDS_QUOTES exactly when its accepted_quote_id is null.
C36_NeedsQuotesIffNull ==
    [][ \A o \in DOMAIN orders' :
            /\ o \notin DOMAIN orders =>
                  /\ orders'[o].status = "NEEDS_QUOTES"
                  /\ orders'[o].accepted_quote_id = NULL
            /\ orders'[o].status = "NEEDS_QUOTES" <=> orders'[o].accepted_quote_id = NULL ]_vars

\* an order that took a quote and went on to be delivered
C36_Witness ==
    \E o \in DOMAIN orders :
        orders[o].status = "DELIVERED" /\ orders[o].accepted_quote_id # NULL

\* C37: with every request served alone, an accepted_quote_id that is set
\* stays as it is: it never names another quote and never is null again, and
\* the order's accepted transporter and participant set stay the same.
C37_AwardIsFinal ==
    [][ \A o \in DOMAIN orders :
            orders[o].accepted_quote_id # NULL =>
                /\ orders'[o].accepted_quote_id = orders[o].accepted_quote_id
                /\ accepted_transporter_id(o)' = accepted_transporter_id(o)
                /\ order_participant_ids(o)' = order_participant_ids(o) ]_vars

\* an awarded order with a declined quote of another transporter, after a
\* later request was served on it
C37_Witness ==
    \E o \in DOMAIN orders : \E q \in DOMAIN quotes :
        /\ orders[o].accepted_quote_id \notin {NULL, q}
        /\ orders[o].status = "IN_TRANSIT"
        /\ quotes[q].order_id = o
        /\ quotes[q].status = "DECLINED"
        /\ quotes[q].transporter_user_id # accepted_transporter_id(o)

\* C38: every message row is stored for an order that has an accepted quote
\* at that time, by a user who is then the order's buyer, a farmer of its items
\* or its accepted transporter; and no stored message is for an order whose
\* accepted_quote_id is null.
C38_MessagesAfterAward ==
    /\ [](\A i \in 1..Len(order_messages) :
            /\ order_messages[i].order_id \in DOMAIN orders
            /\ orders[order_messages[i].order_id].accepted_quote_id # NULL)
    /\ [][ Len(order_messages') > Len(order_messages) =>
             LET m == order_messages'[Len(order_messages')]
             IN  /\ m.order_id \in DOMAIN orders
                 /\ orders[m.order_id].accepted_quote_id # NULL
                 /\ m.sender_user_id \in ParticipantSet(m.order_id) ]_vars

\* messages of the buyer and of the accepted transporter are stored on an
\* awarded order
C38_Witness ==
    \E i, j \in 1..Len(order_messages) :
        LET o == order_messages[i].order_id
        IN  /\ order_messages[j].order_id = o
            /\ order_messages[i].sender_user_id = orders[o].buyer_user_id
            /\ HasAccepted(o)
            /\ order_messages[j].sender_user_id =
                   quotes[orders[o].accepted_quote_id].transporter_user_id

\* C39: an accept or a decline request of a buyer, whatever order id and quote
\* id it carries, leaves as they are the status of every quote of an order of
\* another buyer, and the status and accepted_quote_id of every such order.
C39_OwnOrdersOnly ==
    [][ quotes' # quotes \/ orders' # orders =>
          \A u \in UserIds, oid \in OrderIds, qid \in QuoteIds :
              quote_accept(u, oid, qid) \/ quote_decline(u, oid, qid) =>
                  \A o \in DOMAIN orders :
                      orders[o].buyer_user_id # u =>
                          /\ orders'[o].status = orders[o].status
                          /\ orders'[o].accepted_quote_id = orders[o].accepted_quote_id
                          /\ \A q \in QuotesOf(o) : quotes'[q].status = quotes[q].status ]_vars

\* one buyer has awarded an order and declined nothing of the other buyer's
\* order, which still waits with a submitted quote
C39_Witness ==
    \E o1, o2 \in DOMAIN orders :
        /\ orders[o1].buyer_user_id # orders[o2].buyer_user_id
        /\ orders[o1].status = "QUOTE_ACCEPTED"
        /\ orders[o2].status = "NEEDS_QUOTES"
        /\ \E q \in QuotesOf(o2) : quotes[q].status = "SUBMITTED"

====
